---- MODULE Spec2Model ----
(***************************************************************************)
(* A model of the channel-backed object pool of codergma/pool             *)
(* (src/channel.go, with the Pool interface and ErrClose of               *)
(* src/unnamed/part_000).                                                  *)
(*                                                                         *)
(* The pool is one channelPool object.  Its fields mu, conns, factory,    *)
(* close and idleTimeout are variables of the same names; the buffered    *)
(* channel that conns refers to is the variable chan.  Goroutines are the *)
(* elements of Threads; pc[t] is the position of goroutine t inside the   *)
(* method it is executing, split at every access to shared memory.        *)
(*                                                                         *)
(* The callers are part of the model: goroutine 1 builds the pool with    *)
(* NewChannelPool, then the goroutines call Get, Put, Close, Release and  *)
(* Len in any order and interleaving, putting back or closing only        *)
(* resources some caller owns.  The factory and the destroy behaviour may *)
(* fail at every call.  op, ret, calls, held, closeCount, released,       *)
(* afterRel, relSnap, rt and before record what happened; the program     *)
(* reads none of them.                                                     *)
(***************************************************************************)
EXTENDS Integers, Sequences, FiniteSets

(* ------------------------------ bounds -------------------------------- *)
\* number of goroutines calling the pool
NumThreads == 2
\* largest InitCap / MaxCap a configuration is drawn from
MaxCapBound == 2
\* largest IdleTimeout a configuration is drawn from
MaxTimeout == 1
\* number of method calls made on the pool after NewChannelPool
MaxOps == 4

Threads == 1..NumThreads
\* resources are numbered from 1 in the order the factory builds them
MaxConn == MaxCapBound + MaxOps
Conns == 1..MaxConn

(* ------------------------- values of the program ---------------------- *)
\* the nil interface value / nil pointer
Nil == 0
\* the error values a method returns
ErrClose == "pool is closed"
ErrConfig == "poolConfig.InitCap or poolConfig.MaxCap is error"
ErrConnNil == "conn is nil"
ErrConnNow == "conn is now"
ErrFactory == "factory error"
ErrDestroy == "close error"
NoErr == "nil"
Panic == "panic"

\* an *idleConn: the wrapped connection and, for its field t, the time that has
\* passed since t (time.Now() - t), which is all the program reads of t
IdleConn(c, age) == [conn |-> c, age |-> age]
NilIdleConn == [conn |-> Nil, age |-> 0]

(* ------------------------ Go channel primitives ----------------------- *)
\* make(chan *idleConn, cap)
MakeChan(cap) == [buf |-> <<>>, closed |-> FALSE, cap |-> cap]
NoChan == [buf |-> <<>>, closed |-> FALSE, cap |-> 0]
\* mutant of RecvRest: a receive that leaves the entry in the buffer
RecvRestPeek(ch) == ch

\* mutant of CanRecv: a select that never takes its receive case
CanRecvNever(ch) == FALSE

\* a send proceeds without blocking iff the buffer has room
CanSend(ch) == Len(ch.buf) < ch.cap
ChanSend(ch, w) == [ch EXCEPT !.buf = Append(@, w)]
\* a receive proceeds iff the buffer holds a value or the channel is closed
CanRecv(ch) == ch.buf /= <<>> \/ ch.closed
\* the value a receive yields: the oldest entry, or nil from a closed, drained channel
RecvValue(ch) == IF ch.buf /= <<>> THEN Head(ch.buf) ELSE NilIdleConn
RecvRest(ch) == IF ch.buf /= <<>> THEN [ch EXCEPT !.buf = Tail(@)] ELSE ch
ChanClose(ch) == [ch EXCEPT !.closed = TRUE]

(* --------------------------- configuration ---------------------------- *)
Configs == [InitCap : 0..MaxCapBound, MaxCap : 0..MaxCapBound, IdleTimeout : 0..MaxTimeout]

\* mutant of ConfigInvalid: a validation that forgets InitCap > MaxCap
ConfigInvalidLoose(c) == c.InitCap <= 0 \/ c.MaxCap <= 0

\* the test of NewChannelPool's first line
ConfigInvalid(c) == c.InitCap <= 0 \/ c.MaxCap <= 0 \/ c.InitCap > c.MaxCap

(* ------------------------- pieces of the methods ---------------------- *)
\* Get: wrapConn.t.Add(timeOut).Before(time.Now()), under timeOut > 0;
\* t + timeOut < now is now - t > timeOut
Expired(w, timeOut) == timeOut > 0 /\ w.age > timeOut

\* the argument each call site hands to the destroy behaviour:
\* a pair <<kind, id>> telling a connection from the *idleConn wrapping it
ArgConn(c) == <<"conn", c>>
ArgWrap(w) == <<"idleConn", w.conn>>
NoArg == <<"none", 0>>
\* Get's eviction: cPool.close(wrapConn)
EvictArg(w) == ArgWrap(w)
\* Release's drain: closeFunc(wrapConn)
DrainArg(w) == ArgWrap(w)
\* mutant of CloseArg: Close handing over a wrapper, as the eviction does
CloseArgWrap(c) == <<"idleConn", c>>

\* Close: cPool.close(conn)
CloseArg(c) == ArgConn(c)
Args == {ArgConn(c) : c \in Conns} \cup {ArgWrap(IdleConn(c, 0)) : c \in Conns}

VARIABLES
  cfg,          \* the *Config given to NewChannelPool
  mu,           \* cPool.mu: 0 when free, else the goroutine holding it
  conns,        \* cPool.conns: "nil" or "ch", the reference to chan
  factory,      \* cPool.factory: "nil" or "fn"
  close,        \* cPool.close: "nil" or "fn"
  idleTimeout,  \* cPool.idleTimeout
  chan,         \* the channel made by NewChannelPool
  nextConn,     \* the next resource the factory builds
  pc,           \* pc[t]: where goroutine t is
  op,           \* op[t]: the method goroutine t called last
  local,        \* local[t]: the local variables of that method
  ret,          \* ret[t]: what the method returned
  calls,        \* calls[t]: the behaviours the method invoked, in order
  held,         \* held[c]: how many callers own resource c
  closeCount,   \* closeCount[a]: how often the destroy behaviour was called with a
  opsLeft,      \* method calls still to be made
  newRet,       \* what NewChannelPool returned: "none" until it has
  seen,         \* seen[t]: t has locked mu after Release cleared the fields
  released,     \* some call of Release has returned
  afterRel,     \* afterRel[t]: t's current call began after a Release returned
  relSnap,      \* the resources queued when Release detached the channel
  rt,           \* the Get/Put round trip being observed
  before        \* the pool as the step that ended the last call found it

vars == <<cfg, mu, conns, factory, close, idleTimeout, chan, nextConn, pc, op,
          local, ret, calls, held, closeCount, opsLeft, newRet, seen, released,
          afterRel, relSnap, rt, before>>

pool == <<mu, conns, factory, close, idleTimeout, chan>>

NoLocal == [conns |-> "nil", closeFunc |-> "nil", wrap |-> NilIdleConn, conn |-> Nil,
            i |-> 0, err |-> NoErr]
NoRet == [val |-> Nil, err |-> NoErr]
NoRt == [stage |-> "none", len0 |-> 0, conn |-> Nil]
NoBefore == [conns |-> "nil", factory |-> "nil", close |-> "nil", chan |-> NoChan]

\* len(cPool.getConns()): the length of a nil channel is 0
QueueLen == IF conns = "nil" THEN 0 ELSE Len(chan.buf)
\* the connections wrapped by the entries of the channel's buffer
Queued == {chan.buf[k].conn : k \in 1..Len(chan.buf)}

\* the resources some caller owns
HeldSet == {c \in Conns : held[c] > 0}

Call(f, a, t) == [f |-> f, arg |-> a, mu |-> (mu = t)]

Init ==
  /\ cfg \in Configs
  /\ mu = 0
  /\ conns = "nil"
  /\ factory = "nil"
  /\ close = "nil"
  /\ idleTimeout = 0
  /\ chan = NoChan
  /\ nextConn = 1
  /\ pc = [t \in Threads |-> "idle"]
  /\ op = [t \in Threads |-> "none"]
  /\ local = [t \in Threads |-> NoLocal]
  /\ ret = [t \in Threads |-> NoRet]
  /\ calls = [t \in Threads |-> <<>>]
  /\ held = [c \in Conns |-> 0]
  /\ closeCount = [a \in Args |-> 0]
  /\ opsLeft = MaxOps
  /\ newRet = "none"
  /\ seen = [t \in Threads |-> FALSE]
  /\ released = FALSE
  /\ afterRel = [t \in Threads |-> FALSE]
  /\ relSnap = {}
  /\ rt = NoRt
  /\ before = NoBefore

\* the fields of the pool and its channel, as they are now
PoolNow == [conns |-> conns, factory |-> factory, close |-> close, chan |-> chan]

\* goroutine t is between two calls (or has panicked)
AtRest(t) == pc[t] \in {"idle", "panic"}
Quiescent == \A t \in Threads : AtRest(t)

\* goroutine t returns v, e from the method it is in
Return(t, v, e) ==
  /\ pc' = [pc EXCEPT ![t] = "ret"]
  /\ ret' = [ret EXCEPT ![t] = [val |-> v, err |-> e]]
  /\ before' = PoolNow

\* goroutine t panics: the call never returns, and the program ends
Crash(t) ==
  /\ pc' = [pc EXCEPT ![t] = "panic"]
  /\ ret' = [ret EXCEPT ![t] = [val |-> Nil, err |-> Panic]]
  /\ before' = PoolNow

\* some call has returned and its caller has not yet gone on
Returning == \E t \in Threads : pc[t] = "ret"

\* a panic, which nothing in the package recovers, has ended the program
Panicked == \E t \in Threads : pc[t] = "panic"

\* the program takes steps: it has not ended, and no caller is about to Resume
\* (a return is followed at once by its caller's Resume, which touches nothing
\* the pool or another goroutine reads, so no interleaving is lost)
Running == ~Returning /\ ~Panicked

\* goroutines between two calls that have synchronised with the same writes
\* differ in nothing but their number
Alike(u, t) == pc[u] = "idle" /\ pc[t] = "idle" /\ seen[u] = seen[t]

\* goroutine t, between two calls, calls method m of the pool NewChannelPool
\* returned; the call begins with the method's first access to shared state.
\* Of several goroutines that are alike the lowest-numbered makes the call:
\* every other choice gives the same behaviour with the goroutines renumbered
Begin(t, m) ==
  /\ newRet = "ok"
  /\ pc[t] = "idle"
  /\ opsLeft > 0
  /\ \A u \in Threads : u < t => ~Alike(u, t)
  /\ Running
  /\ opsLeft' = opsLeft - 1
  /\ op' = [op EXCEPT ![t] = m]
  /\ afterRel' = [afterRel EXCEPT ![t] = released]

\* what a goroutine reads from a field that Release clears under mu when the
\* goroutine itself reads it without mu: a goroutine that has locked mu since the
\* fields were cleared reads nil, any other may read the cleared or the stale value
RacyRead(field, t) == IF field /= "nil" \/ seen[t] THEN {field} ELSE {"nil", "fn"}

\* goroutine t, having invoked the behaviours log so far in this method, calls
\* the destroy behaviour with argument a
Destroy(log, a, t) ==
  /\ closeCount' = [closeCount EXCEPT ![a] = @ + 1]
  /\ calls' = [calls EXCEPT ![t] = Append(log, Call("close", a, t))]

\* the results the destroy behaviour may give
DestroyResults == {NoErr, ErrDestroy}

(* --------------------------- NewChannelPool --------------------------- *)
\* mutant of NewChanCap: a buffer one slot too large
NewChanCapWide(c) == c.MaxCap + 1

\* mutant of InitPopulation: the loop filling the whole buffer
InitPopulationMax(c) == c.MaxCap

\* make(chan *idleConn, poolConfig.MaxCap)
NewChanCap(c) == c.MaxCap
\* for i := 0; i < poolConfig.InitCap; i++
InitPopulation(c) == c.InitCap

\* the validation and the construction of the channelPool value
NewCall(t) ==
  /\ t = 1
  /\ newRet = "none"
  /\ pc[t] = "idle"
  /\ Running
  /\ op' = [op EXCEPT ![t] = "New"]
  /\ IF ConfigInvalid(cfg)
       THEN /\ Return(t, Nil, ErrConfig)
            /\ newRet' = "err"
            /\ UNCHANGED <<conns, factory, close, idleTimeout, chan>>
       ELSE /\ conns' = "ch"
            /\ factory' = "fn"
            /\ close' = "fn"
            /\ idleTimeout' = cfg.IdleTimeout
            /\ chan' = MakeChan(NewChanCap(cfg))
            /\ pc' = [pc EXCEPT ![t] = "New_loop"]
            /\ UNCHANGED <<ret, before, newRet>>
  /\ UNCHANGED <<cfg, mu, nextConn, local, calls, held, closeCount, opsLeft, seen,
                 released, afterRel, relSnap, rt>>

\* one iteration of the loop: factory(), then the send or the Release
NewLoop(t) ==
  /\ pc[t] = "New_loop"
  /\ Running
  /\ local[t].i < InitPopulation(cfg)
  /\ \/ /\ CanSend(chan)
        /\ chan' = ChanSend(chan, IdleConn(nextConn, 0))
        /\ nextConn' = nextConn + 1
        /\ calls' = [calls EXCEPT ![t] = Append(@, Call("factory", ArgConn(nextConn), t))]
        /\ local' = [local EXCEPT ![t].i = @ + 1]
        /\ UNCHANGED pc
     \/ /\ calls' = [calls EXCEPT ![t] = Append(@, Call("factory", NoArg, t))]
        /\ local' = [local EXCEPT ![t].err = ErrFactory]
        /\ pc' = [pc EXCEPT ![t] = "Rel_lock"]
        /\ UNCHANGED <<chan, nextConn>>
  /\ UNCHANGED <<cfg, mu, conns, factory, close, idleTimeout, op, ret, before, held,
                 closeCount, opsLeft, newRet, seen, released, afterRel, relSnap, rt>>

\* return cPool, nil
NewReturn(t) ==
  /\ pc[t] = "New_loop"
  /\ Running
  /\ local[t].i >= InitPopulation(cfg)
  /\ Return(t, Nil, NoErr)
  /\ newRet' = "ok"
  /\ UNCHANGED <<cfg, mu, conns, factory, close, idleTimeout, chan, nextConn, op,
                 local, calls, held, closeCount, opsLeft, seen, released, afterRel,
                 relSnap, rt>>

(* ------------------------------ Release ------------------------------- *)
\* mutant of DetachedConns: a Release that does not clear cPool.conns
DetachedConnsKept == "ch"

\* what Release leaves in cPool.conns
DetachedConns == "nil"

\* mu.Lock() ... mu.Unlock(): capture conns and close, clear the three fields;
\* loc is the goroutine's locals on entry
RelLocked(t, loc) ==
  /\ mu = 0
  /\ local' = [local EXCEPT ![t] = [loc EXCEPT !.conns = conns, !.closeFunc = close]]
  /\ conns' = DetachedConns
  /\ close' = "nil"
  /\ factory' = "nil"
  /\ seen' = [seen EXCEPT ![t] = TRUE]
  /\ relSnap' = IF conns = "ch" THEN Queued ELSE relSnap
  /\ pc' = [pc EXCEPT ![t] = "Rel_close"]
  /\ UNCHANGED <<cfg, mu, idleTimeout, chan, nextConn, ret, before, held, closeCount,
                 newRet, released>>

\* a caller's Release(), up to the end of its critical section
ReleaseLock(t) ==
  /\ Begin(t, "Release")
  /\ RelLocked(t, NoLocal)
  /\ calls' = [calls EXCEPT ![t] = <<>>]
  /\ rt' = NoRt

\* the critical section of the Release() that NewChannelPool calls
NewRelLock(t) ==
  /\ pc[t] = "Rel_lock"
  /\ Running
  /\ RelLocked(t, local[t])
  /\ UNCHANGED <<op, calls, opsLeft, afterRel, rt>>

\* close(conns): closing a nil or a closed channel panics
RelClose(t) ==
  /\ pc[t] = "Rel_close"
  /\ Running
  /\ IF local[t].conns = "nil" \/ chan.closed
       THEN /\ Crash(t)
            /\ UNCHANGED chan
       ELSE /\ chan' = ChanClose(chan)
            /\ pc' = [pc EXCEPT ![t] = "Rel_drain"]
            /\ UNCHANGED <<ret, before>>
  /\ UNCHANGED <<cfg, mu, conns, factory, close, idleTimeout, nextConn, op, local,
                 calls, held, closeCount, opsLeft, newRet, seen, released, afterRel,
                 relSnap, rt>>

\* one iteration of "for wrapConn := range conns": closeFunc(wrapConn)
RelDrain(t) ==
  /\ pc[t] = "Rel_drain"
  /\ Running
  /\ chan.buf /= <<>>
  /\ chan' = RecvRest(chan)
  /\ IF local[t].closeFunc = "nil"
       THEN /\ Crash(t)
            /\ UNCHANGED <<closeCount, calls>>
       ELSE /\ Destroy(calls[t], DrainArg(RecvValue(chan)), t)
            /\ UNCHANGED <<pc, ret, before>>
  /\ UNCHANGED <<cfg, mu, conns, factory, close, idleTimeout, nextConn, op, local,
                 held, opsLeft, newRet, seen, released, afterRel, relSnap, rt>>

\* the range loop ends on the closed, drained channel; NewChannelPool, when it
\* called Release, returns nil, err
RelReturn(t) ==
  /\ pc[t] = "Rel_drain"
  /\ Running
  /\ chan.buf = <<>>
  /\ IF op[t] = "New"
       THEN /\ Return(t, Nil, local[t].err)
            /\ newRet' = "err"
            /\ UNCHANGED released
       ELSE /\ Return(t, Nil, NoErr)
            /\ released' = TRUE
            /\ UNCHANGED newRet
  /\ UNCHANGED <<cfg, mu, conns, factory, close, idleTimeout, chan, nextConn, op,
                 local, calls, held, closeCount, opsLeft, seen, afterRel, relSnap, rt>>

(* -------------------------------- Get --------------------------------- *)
\* mutant of ConnsIsNil: Get without its released test
ConnsIsNilNever(cs) == FALSE

\* Get's test "conns == nil"
ConnsIsNil(cs) == cs = "nil"

\* conns := cPool.getConns(); if conns == nil { return nil, ErrClose }
GetConns(t) ==
  /\ Begin(t, "Get")
  /\ mu = 0
  /\ local' = [local EXCEPT ![t] = [NoLocal EXCEPT !.conns = conns]]
  /\ calls' = [calls EXCEPT ![t] = <<>>]
  /\ seen' = [seen EXCEPT ![t] = @ \/ conns = "nil"]
  /\ IF ConnsIsNil(conns)
       THEN /\ Return(t, Nil, ErrClose)
            /\ rt' = NoRt
       ELSE /\ pc' = [pc EXCEPT ![t] = "Get_select"]
            /\ rt' = IF Quiescent
                       THEN [stage |-> "get", len0 |-> QueueLen, conn |-> Nil]
                       ELSE NoRt
            /\ UNCHANGED <<ret, before>>
  /\ UNCHANGED <<cfg, mu, conns, factory, close, idleTimeout, chan, nextConn, held,
                 closeCount, newRet, released, relSnap>>

\* the select: a receive when one can proceed (never on a nil channel), else the
\* default case; after a receive, the nil test and the timeout test
GetSelect(t) ==
  /\ pc[t] = "Get_select"
  /\ Running
  /\ IF local[t].conns = "ch" /\ CanRecv(chan)
       THEN /\ chan' = RecvRest(chan)
            /\ IF RecvValue(chan) = NilIdleConn
                 THEN /\ Return(t, Nil, ErrClose)
                      /\ rt' = NoRt
                      /\ UNCHANGED <<local, held>>
                 ELSE IF Expired(RecvValue(chan), idleTimeout)
                 THEN /\ local' = [local EXCEPT ![t].wrap = RecvValue(chan)]
                      /\ pc' = [pc EXCEPT ![t] = "Get_evict"]
                      /\ rt' = NoRt
                      /\ UNCHANGED <<ret, before, held>>
                 ELSE /\ Return(t, RecvValue(chan).conn, NoErr)
                      /\ held' = [held EXCEPT ![RecvValue(chan).conn] = @ + 1]
                      /\ rt' = IF rt.stage = "get"
                                 THEN [rt EXCEPT !.stage = "got", !.conn = RecvValue(chan).conn]
                                 ELSE rt
                      /\ UNCHANGED local
       ELSE /\ pc' = [pc EXCEPT ![t] = "Get_factory"]
            /\ UNCHANGED <<chan, local, ret, before, held, rt>>
  /\ UNCHANGED <<cfg, mu, conns, factory, close, idleTimeout, nextConn, op, calls,
                 closeCount, opsLeft, newRet, seen, released, afterRel, relSnap>>

\* cPool.close(wrapConn); continue  -- cPool.close is read without mu
GetEvict(t) ==
  /\ pc[t] = "Get_evict"
  /\ Running
  /\ \E f \in RacyRead(close, t) :
       IF f = "nil"
         THEN /\ Crash(t)
              /\ UNCHANGED <<closeCount, calls>>
         ELSE /\ Destroy(calls[t], EvictArg(local[t].wrap), t)
              /\ pc' = [pc EXCEPT ![t] = "Get_select"]
              /\ UNCHANGED <<ret, before>>
  /\ UNCHANGED <<cfg, mu, conns, factory, close, idleTimeout, chan, nextConn, op,
                 local, held, opsLeft, newRet, seen, released, afterRel, relSnap, rt>>

\* conn, err := cPool.factory()  -- cPool.factory is read without mu
GetFactory(t) ==
  /\ pc[t] = "Get_factory"
  /\ Running
  /\ \E f \in RacyRead(factory, t) :
       IF f = "nil"
         THEN /\ Crash(t)
              /\ rt' = NoRt
              /\ UNCHANGED <<calls, nextConn, held>>
         ELSE \/ /\ calls' = [calls EXCEPT ![t] = Append(@, Call("factory", ArgConn(nextConn), t))]
                 /\ nextConn' = nextConn + 1
                 /\ held' = [held EXCEPT ![nextConn] = @ + 1]
                 /\ Return(t, nextConn, NoErr)
                 /\ rt' = IF rt.stage = "get"
                            THEN [rt EXCEPT !.stage = "got", !.conn = nextConn]
                            ELSE rt
              \/ /\ calls' = [calls EXCEPT ![t] = Append(@, Call("factory", NoArg, t))]
                 /\ Return(t, Nil, ErrFactory)
                 /\ rt' = NoRt
                 /\ UNCHANGED <<nextConn, held>>
  /\ UNCHANGED <<cfg, mu, conns, factory, close, idleTimeout, chan, op, local,
                 closeCount, opsLeft, newRet, seen, released, afterRel, relSnap>>

(* -------------------------------- Put --------------------------------- *)
\* Put(nil): if conn == nil { return errors.New(...) }
PutNil(t) ==
  /\ Begin(t, "Put")
  /\ local' = [local EXCEPT ![t] = NoLocal]
  /\ calls' = [calls EXCEPT ![t] = <<>>]
  /\ Return(t, Nil, ErrConnNow)
  /\ rt' = NoRt
  /\ UNCHANGED <<cfg, mu, conns, factory, close, idleTimeout, chan, nextConn, held,
                 closeCount, newRet, seen, released, relSnap>>

\* Put(c) of a resource c the caller owns, up to
\* cPool.mu.Lock(); defer cPool.mu.Unlock()
PutLock(t) ==
  \E c \in HeldSet :
    /\ Begin(t, "Put")
    /\ mu = 0
    /\ mu' = t
    /\ local' = [local EXCEPT ![t] = [NoLocal EXCEPT !.conn = c]]
    /\ calls' = [calls EXCEPT ![t] = <<>>]
    /\ held' = [held EXCEPT ![c] = @ - 1]
    /\ seen' = [seen EXCEPT ![t] = @ \/ conns = "nil"]
    /\ pc' = [pc EXCEPT ![t] = "Put_locked"]
    /\ rt' = IF rt.stage = "got" /\ c = rt.conn /\ Quiescent
               THEN [rt EXCEPT !.stage = "put"]
               ELSE NoRt
    /\ UNCHANGED <<cfg, conns, factory, close, idleTimeout, chan, nextConn, ret, before,
                   closeCount, newRet, released, relSnap>>

\* mutant of PutCanEnqueue: the select always takes its default case
PutCanEnqueueNever(ch) == FALSE

\* Put's select: the send case is taken when the send can proceed
PutCanEnqueue(ch) == CanSend(ch)

\* Put ends: the deferred cPool.mu.Unlock() runs, also when Put panics
PutUnlock(t, e) ==
  /\ mu' = 0
  /\ IF e = Panic THEN Crash(t) ELSE Return(t, Nil, e)
  /\ rt' = IF rt.stage = "put" /\ e /= Panic THEN [rt EXCEPT !.stage = "done"] ELSE NoRt

\* return cPool.Close(conn) in Put, which holds mu: a nil cPool.close panics,
\* else the destroy behaviour runs and its result is what Put returns
PutClose(t) ==
  IF close = "nil"
    THEN /\ PutUnlock(t, Panic)
         /\ UNCHANGED <<closeCount, calls>>
    ELSE \E e \in DestroyResults :
           /\ Destroy(calls[t], CloseArg(local[t].conn), t)
           /\ PutUnlock(t, e)

\* the body of Put under mu: the released test, then the select (a send on a
\* closed channel panics), then the return with its deferred unlock
PutLocked(t) ==
  /\ pc[t] = "Put_locked"
  /\ Running
  /\ IF conns = "nil"
       THEN /\ PutClose(t)
            /\ UNCHANGED chan
       ELSE IF chan.closed
       THEN /\ PutUnlock(t, Panic)
            /\ UNCHANGED <<chan, closeCount, calls>>
       ELSE IF PutCanEnqueue(chan)
       THEN /\ chan' = ChanSend(chan, IdleConn(local[t].conn, 0))
            /\ PutUnlock(t, NoErr)
            /\ UNCHANGED <<closeCount, calls>>
       ELSE /\ PutClose(t)
            /\ UNCHANGED chan
  /\ UNCHANGED <<cfg, conns, factory, close, idleTimeout, nextConn, op, local,
                 held, opsLeft, newRet, seen, released, afterRel, relSnap>>

(* ------------------------------- Close -------------------------------- *)
\* mutant of CloseNil: Close without its nil test, calling cPool.close(nil)
CloseNilInvoke(t) ==
  /\ Begin(t, "Close")
  /\ local' = [local EXCEPT ![t] = NoLocal]
  /\ calls' = [calls EXCEPT ![t] = <<Call("close", NoArg, t)>>]
  /\ Return(t, Nil, NoErr)
  /\ rt' = NoRt
  /\ UNCHANGED <<cfg, mu, conns, factory, close, idleTimeout, chan, nextConn, held,
                 closeCount, newRet, seen, released, relSnap>>

\* Close(nil): if conn == nil { return errors.New("conn is nil") }
CloseNil(t) ==
  /\ Begin(t, "Close")
  /\ local' = [local EXCEPT ![t] = NoLocal]
  /\ calls' = [calls EXCEPT ![t] = <<>>]
  /\ Return(t, Nil, ErrConnNil)
  /\ rt' = NoRt
  /\ UNCHANGED <<cfg, mu, conns, factory, close, idleTimeout, chan, nextConn, held,
                 closeCount, newRet, seen, released, relSnap>>

\* Close(c) of a resource c the caller owns:
\* return cPool.close(conn)  -- cPool.close is read without mu
CloseInvoke(t) ==
  \E c \in HeldSet :
    /\ Begin(t, "Close")
    /\ local' = [local EXCEPT ![t] = [NoLocal EXCEPT !.conn = c]]
    /\ held' = [held EXCEPT ![c] = @ - 1]
    /\ rt' = NoRt
    /\ \E f \in RacyRead(close, t) :
         IF f = "nil"
           THEN /\ Crash(t)
                /\ calls' = [calls EXCEPT ![t] = <<>>]
                /\ UNCHANGED closeCount
           ELSE \E e \in DestroyResults :
                  /\ Destroy(<<>>, CloseArg(c), t)
                  /\ Return(t, Nil, e)
    /\ UNCHANGED <<cfg, mu, conns, factory, close, idleTimeout, chan, nextConn,
                   newRet, seen, released, relSnap>>

(* -------------------------------- Len --------------------------------- *)
\* cPool.getConns()
LenGetConns(t) ==
  /\ Begin(t, "Len")
  /\ mu = 0
  /\ local' = [local EXCEPT ![t] = [NoLocal EXCEPT !.conns = conns]]
  /\ calls' = [calls EXCEPT ![t] = <<>>]
  /\ seen' = [seen EXCEPT ![t] = @ \/ conns = "nil"]
  /\ pc' = [pc EXCEPT ![t] = "Len_len"]
  /\ rt' = NoRt
  /\ UNCHANGED <<cfg, mu, conns, factory, close, idleTimeout, chan, nextConn, ret, before,
                 held, closeCount, newRet, released, relSnap>>

\* len(conns) of the channel getConns returned
LenLen(t) ==
  /\ pc[t] = "Len_len"
  /\ Running
  /\ Return(t, IF local[t].conns = "nil" THEN 0 ELSE Len(chan.buf), NoErr)
  /\ UNCHANGED <<cfg, mu, conns, factory, close, idleTimeout, chan, nextConn, op,
                 local, calls, held, closeCount, opsLeft, newRet, seen, released,
                 afterRel, relSnap, rt>>

(* ------------------------------- clock -------------------------------- *)
\* ages beyond AgeCap are not told apart by Expired, so they are not counted
AgeCap == IF idleTimeout > 0 THEN idleTimeout + 1 ELSE 0
Older(w) == [w EXCEPT !.age = IF @ < AgeCap THEN @ + 1 ELSE @]

\* one unit of time passes: every queued entry has been idle one unit longer
Tick ==
  /\ Running
  /\ \E k \in 1..Len(chan.buf) : chan.buf[k].age < AgeCap
  /\ chan' = [chan EXCEPT !.buf = [k \in 1..Len(@) |-> Older(@[k])]]
  /\ UNCHANGED <<cfg, mu, conns, factory, close, idleTimeout, nextConn, pc, op,
                 local, ret, before, calls, held, closeCount, opsLeft, newRet, seen, released,
                 afterRel, relSnap, rt>>

\* the caller takes what the method returned and goes on: the record of the
\* finished call is dropped
Resume(t) ==
  /\ pc[t] = "ret"
  /\ pc' = [pc EXCEPT ![t] = "idle"]
  /\ op' = [op EXCEPT ![t] = "none"]
  /\ local' = [local EXCEPT ![t] = NoLocal]
  /\ ret' = [ret EXCEPT ![t] = NoRet]
  /\ before' = NoBefore
  /\ calls' = [calls EXCEPT ![t] = <<>>]
  /\ afterRel' = [afterRel EXCEPT ![t] = FALSE]
  /\ rt' = IF rt.stage = "done" THEN NoRt ELSE rt
  /\ UNCHANGED <<cfg, mu, conns, factory, close, idleTimeout, chan, nextConn, held,
                 closeCount, opsLeft, newRet, seen, released, relSnap>>

Next ==
  \/ \E t \in Threads : Resume(t)
  \/ \E t \in Threads : NewCall(t)
  \/ \E t \in Threads : NewLoop(t)
  \/ \E t \in Threads : NewReturn(t)
  \/ \E t \in Threads : NewRelLock(t)
  \/ \E t \in Threads : ReleaseLock(t)
  \/ \E t \in Threads : RelClose(t)
  \/ \E t \in Threads : RelDrain(t)
  \/ \E t \in Threads : RelReturn(t)
  \/ \E t \in Threads : GetConns(t)
  \/ \E t \in Threads : GetSelect(t)
  \/ \E t \in Threads : GetEvict(t)
  \/ \E t \in Threads : GetFactory(t)
  \/ \E t \in Threads : PutNil(t)
  \/ \E t \in Threads : PutLock(t)
  \/ \E t \in Threads : PutLocked(t)
  \/ \E t \in Threads : CloseNil(t)
  \/ \E t \in Threads : CloseInvoke(t)
  \/ \E t \in Threads : LenGetConns(t)
  \/ \E t \in Threads : LenLen(t)
  \/ Tick

Spec == Init /\ [][Next]_vars

\* the steps goroutine t takes inside a method it has called, and its going on
\* after the return; none of them waits for anything but mu
ThreadStep(t) ==
  \/ Resume(t)
  \/ NewLoop(t) \/ NewReturn(t) \/ NewRelLock(t)
  \/ RelClose(t) \/ RelDrain(t) \/ RelReturn(t)
  \/ GetSelect(t) \/ GetEvict(t) \/ GetFactory(t)
  \/ PutLocked(t)
  \/ LenLen(t)

\* the Go scheduler runs every goroutine that can run; the behaviours return
FairSpec == Spec /\ \A t \in Threads : WF_vars(ThreadStep(t))

(* ============================== claims ================================ *)
\* the destroy calls among the behaviours goroutine t's current method invoked
CloseCalls(t) == {k \in 1..Len(calls[t]) : calls[t][k].f = "close"}
FactoryCalls(t) == {k \in 1..Len(calls[t]) : calls[t][k].f = "factory"}
Finished(t) == pc[t] \in {"ret", "panic"}

\* C1: a Put of a non-nil resource r that begins after Release has returned
\* invokes the destroy behaviour exactly once, on r, returns its result, and
\* leaves Len() at 0.
C1_PutAfterReleaseDestroys ==
  \A t \in Threads :
    (op[t] = "Put" /\ afterRel[t] /\ local[t].conn /= Nil /\ Finished(t)) =>
      /\ pc[t] = "ret"
      /\ Len(calls[t]) = 1
      /\ calls[t][1].f = "close"
      /\ calls[t][1].arg = ArgConn(local[t].conn)
      /\ ret[t].err \in DestroyResults
      /\ QueueLen = 0

\* C2: a Get that begins after Release has returned fails with ErrClose,
\* returns no resource, and invokes neither the construct nor the destroy
\* behaviour (it never gets past the released test).
C2_GetAfterReleaseFails ==
  \A t \in Threads :
    (op[t] = "Get" /\ afterRel[t]) =>
      /\ pc[t] = "ret"
      /\ calls[t] = <<>>
      /\ pc[t] = "ret" => ret[t] = [val |-> Nil, err |-> ErrClose]

C2_Witness ==
  \E t \in Threads : op[t] = "Get" /\ afterRel[t] /\ pc[t] = "ret"

\* C3: Release on a pool that is already released (or being released by another
\* goroutine) completes normally: no call of Release panics.
C3_ReleaseIdempotent ==
  \A t \in Threads : op[t] = "Release" => pc[t] /= "panic"

\* C4: in every reachable state the idle queue holds between 0 and MaxCap
\* entries, and so does every value Len() returns.
C4_LenBounded ==
  /\ QueueLen >= 0
  /\ QueueLen <= cfg.MaxCap
  /\ Len(chan.buf) <= cfg.MaxCap
  /\ \A t \in Threads :
       (op[t] = "Len" /\ pc[t] = "ret") => (ret[t].val >= 0 /\ ret[t].val <= cfg.MaxCap)

\* a Put found the queue full and destroyed its resource
C4_Witness ==
  /\ cfg.MaxCap > 0
  /\ QueueLen = cfg.MaxCap
  /\ \E t \in Threads : op[t] = "Put" /\ pc[t] = "ret" /\ CloseCalls(t) /= {}

\* C5: no construct or destroy behaviour is invoked by a goroutine that holds
\* the pool's mutex.
C5_NoBehaviourUnderMutex ==
  \A t \in Threads : \A k \in 1..Len(calls[t]) : ~calls[t][k].mu


\* C6: a resource is never owned by a caller and queued at the same time, is
\* never queued twice, and is never owned by two callers at once (callers put
\* back only resources they own).
C6_OwnershipDisjoint ==
  /\ \A c \in Conns : held[c] <= 1
  /\ HeldSet \cap Queued = {}
  /\ Cardinality(Queued) = Len(chan.buf)

\* a resource went out by Get and came back by Put while another is still out
C6_Witness ==
  /\ HeldSet /= {}
  /\ \E t \in Threads :
       op[t] = "Put" /\ pc[t] = "ret" /\ local[t].conn \in Queued /\ local[t].conn <= cfg.InitCap

\* C7: what Get evicts it destroys by exactly one call of the destroy behaviour
\* with the resource itself as argument, and never hands to the caller; with
\* IdleTimeout = 0 Get destroys nothing.
C7_EvictionDestroysResource ==
  \A t \in Threads :
    op[t] = "Get" =>
      /\ idleTimeout = 0 => CloseCalls(t) = {}
      /\ \A k \in CloseCalls(t) :
           /\ calls[t][k].arg[1] = "conn"
           /\ closeCount[calls[t][k].arg] = 1
           /\ held[calls[t][k].arg[2]] = 0

\* C8 as claimed: a Get and the Put of what it returned, with nothing else
\* running and no eviction, leave Len() at its value before the Get, from every
\* state of a live pool.
C8_RoundTripAnyLen ==
  rt.stage = "done" => QueueLen = rt.len0

\* C8 as amended: the round trip leaves Len() unchanged when the queue was not
\* empty before the Get; from an empty queue Get builds a resource, Put
\* enqueues it, and Len() ends at 1.
C8_RoundTrip ==
  rt.stage = "done" => QueueLen = (IF rt.len0 = 0 THEN 1 ELSE rt.len0)

C8_Witness ==
  rt.stage = "done" /\ rt.len0 > 0

\* C9: when Release has returned the queue is empty and every resource that was
\* queued when Release detached the channel has been passed to the destroy
\* behaviour exactly once, unless a Get in flight took it first (a caller
\* owns it, or that Get is evicting it).
C9_ReleaseDestroysAll ==
  \A t \in Threads :
    (op[t] = "Release" /\ pc[t] = "ret" /\ local[t].conns = "ch") =>
      /\ chan.buf = <<>>
      /\ \A c \in relSnap :
           \/ closeCount[ArgConn(c)] = 1
           \/ held[c] > 0
           \/ \E u \in Threads : op[u] = "Get" /\ local[u].wrap.conn = c

\* C10: when NewChannelPool returns for a valid configuration whose factory did
\* not fail, it returns a pool with Len() = InitCap, having called the factory
\* InitCap times and the destroy behaviour not at all.
C10_NewPopulates ==
  \A t \in Threads :
    (op[t] = "New" /\ pc[t] = "ret" /\ opsLeft = MaxOps
       /\ ~ConfigInvalid(cfg) /\ local[t].err /= ErrFactory) =>
      /\ ret[t].err = NoErr
      /\ newRet = "ok"
      /\ QueueLen = cfg.InitCap
      /\ Cardinality(FactoryCalls(t)) = cfg.InitCap
      /\ CloseCalls(t) = {}
      /\ \A a \in Args : closeCount[a] = 0

C10_Witness ==
  \E t \in Threads :
    /\ op[t] = "New" /\ pc[t] = "ret" /\ opsLeft = MaxOps
    /\ ret[t].err = NoErr
    /\ cfg.InitCap < cfg.MaxCap
    /\ QueueLen = cfg.InitCap

\* C11: when the factory fails on its k-th call inside NewChannelPool, New
\* returns that error and no pool, the factory has been called k times and no
\* more, and each of the k-1 resources built before has been passed to the
\* destroy behaviour exactly once.
C11_FailedNewDestroysBuilt ==
  \A t \in Threads :
    (op[t] = "New" /\ pc[t] = "ret" /\ local[t].err = ErrFactory) =>
      /\ ret[t] = [val |-> Nil, err |-> ErrFactory]
      /\ newRet = "err"
      /\ Cardinality(FactoryCalls(t)) = local[t].i + 1
      /\ \A c \in 1..local[t].i : closeCount[ArgConn(c)] = 1

\* C12: NewChannelPool with InitCap <= 0, MaxCap <= 0 or InitCap > MaxCap
\* returns the configuration error and no pool, builds no pool at all, and
\* calls neither the factory nor the destroy behaviour.
C12_InvalidConfigRejected ==
  (cfg.InitCap <= 0 \/ cfg.MaxCap <= 0 \/ cfg.InitCap > cfg.MaxCap) =>
    /\ newRet \in {"none", "err"}
    /\ conns = "nil" /\ chan = NoChan
    /\ nextConn = 1
    /\ \A a \in Args : closeCount[a] = 0
    /\ \A t \in Threads :
         /\ calls[t] = <<>>
         /\ op[t] = "New" => (pc[t] = "ret" /\ ret[t] = [val |-> Nil, err |-> ErrConfig])

\* New refused a configuration whose InitCap exceeds a positive MaxCap
C12_Witness ==
  \E t \in Threads :
    /\ op[t] = "New" /\ pc[t] = "ret" /\ ret[t].err = ErrConfig
    /\ cfg.MaxCap > 0 /\ cfg.InitCap > cfg.MaxCap

\* C13: Put(nil) and Close(nil) return their error at once, on a live and on a
\* released pool alike; they call no behaviour and leave the pool's fields and
\* the idle queue as they found them.
C13_NilRejected ==
  \A t \in Threads :
    (op[t] \in {"Put", "Close"} /\ local[t].conn = Nil) =>
      /\ pc[t] = "ret"
      /\ ret[t] = [val |-> Nil, err |-> IF op[t] = "Put" THEN ErrConnNow ELSE ErrConnNil]
      /\ calls[t] = <<>>
      /\ PoolNow = before

\* Close(nil) was refused on a released pool
C13_Witness ==
  \E t \in Threads :
    /\ op[t] = "Close" /\ local[t].conn = Nil /\ pc[t] = "ret"
    /\ released /\ conns = "nil"

C15_CloseDestroys ==
  \A t \in Threads :
    (op[t] = "Close" /\ local[t].conn /= Nil /\ Finished(t)) =>
      /\ pc[t] = "ret"
      /\ Len(calls[t]) = 1
      /\ calls[t][1].f = "close"
      /\ calls[t][1].arg = ArgConn(local[t].conn)
      /\ ret[t].err \in DestroyResults
      /\ chan = before.chan

\* goroutine t is inside a call of one of the five methods of the pool
InCall(t) == op[t] \in {"Get", "Put", "Close", "Release", "Len"} /\ pc[t] /= "idle"

\* C16: under fair scheduling every call of Get, Put, Close, Release and Len
\* eventually returns, whatever the other goroutines do.
C16_EveryCallReturns ==
  \A t \in Threads : InCall(t) ~> (pc[t] = "ret")

\* the part of C16 that the code keeps: no call waits for ever, it returns or
\* the program has panicked
NeverBlocks ==
  \A t \in Threads : InCall(t) ~> (pc[t] = "ret" \/ Panicked)

\* C17: a Get or Put in flight while Release runs sees the pool open or closed,
\* never in between: a Get that captured the queue before Release detached it,
\* and a Put that found the queue attached, does not abort with a panic.
C17_OpenOrClosed ==
  \A t \in Threads :
    (\/ op[t] = "Get" /\ local[t].conns = "ch"
     \/ op[t] = "Put" /\ Finished(t) /\ before.conns = "ch") =>
      pc[t] /= "panic"

\* C18: no Put enqueues on a queue that Release has detached or closed: the
\* channel is closed only once it is detached, a detached queue only loses
\* entries, and a Put changes the queue only when it found it attached and
\* open.
C18_NoEnqueueAfterDetach ==
  /\ chan.closed => conns = "nil"
  /\ conns = "nil" => Queued \subseteq relSnap
  /\ \A t \in Threads :
       (op[t] = "Put" /\ local[t].conn /= Nil /\ Finished(t)) =>
         /\ chan /= before.chan => (before.conns = "ch" /\ ~before.chan.closed)
         /\ before.conns = "nil" => (conns = "nil" /\ chan = before.chan)

\* a Put took the mutex after a Release that is still draining, and saw the
\* pool released
C18_Witness ==
  \E t, u \in Threads :
    /\ op[t] = "Put" /\ local[t].conn /= Nil /\ Finished(t) /\ before.conns = "nil"
    /\ op[u] = "Release" /\ pc[u] \in {"Rel_close", "Rel_drain"}

\* C19: a Get on a live pool that takes its default case calls the factory
\* once, as its last call, returns the resource built or the factory's error,
\* and leaves the queue alone; a Get that runs alone from an empty queue calls
\* nothing else and leaves the queue empty, and one that runs alone from a
\* queue holding a fresh entry does not call the factory.
C19_GetConstructsOnce ==
  \A t \in Threads :
    (op[t] = "Get" /\ pc[t] = "ret" /\ before.conns = "ch") =>
      /\ FactoryCalls(t) /= {} =>
           /\ FactoryCalls(t) = {Len(calls[t])}
           /\ chan = before.chan
           /\ \/ /\ ret[t].err = NoErr
                 /\ calls[t][Len(calls[t])].arg = ArgConn(ret[t].val)
                 /\ ret[t].val = nextConn - 1
                 /\ held[ret[t].val] = 1
              \/ /\ ret[t] = [val |-> Nil, err |-> ErrFactory]
                 /\ calls[t][Len(calls[t])].arg = NoArg
      /\ (FactoryCalls(t) = {} /\ ret[t].err = NoErr) =>
           /\ before.chan.buf /= <<>>
           /\ ret[t].val = Head(before.chan.buf).conn
      /\ (rt.stage = "got" /\ rt.len0 = 0) =>
           (Len(calls[t]) = 1 /\ FactoryCalls(t) = {1} /\ QueueLen = 0)
      /\ (rt.stage = "got" /\ rt.len0 > 0) => calls[t] = <<>>

\* the factory failed in a Get that found the queue of a live pool empty
C19_Witness ==
  \E t \in Threads :
    /\ op[t] = "Get" /\ pc[t] = "ret" /\ ret[t].err = ErrFactory
    /\ before.conns = "ch" /\ before.chan.buf = <<>>
    /\ Len(calls[t]) = 1

\* the resources the factory has built so far
Built == 1..(nextConn - 1)

\* C20: whenever no call is in flight on a pool that New returned and that has
\* not panicked, every resource the factory built is owned by one caller, or
\* queued, or has been passed to the destroy behaviour once, and is in only
\* one of these three states.
C20_Conservation ==
  (Quiescent /\ ~Panicked /\ newRet = "ok") =>
    \A c \in Built :
      /\ held[c] <= 1
      /\ closeCount[ArgConn(c)] <= 1
      /\ Cardinality({k \in 1..Len(chan.buf) : chan.buf[k].conn = c}) <= 1
      /\ (IF held[c] = 1 THEN 1 ELSE 0) + (IF c \in Queued THEN 1 ELSE 0)
           + closeCount[ArgConn(c)] = 1

====
